---- MODULE Spec2Model ----
(***************************************************************************)
(* Model of jeancmelo/analytics-insights-ai: the chat application          *)
(* (src/app.py), the insights panel (src/app_panel.py) and their SQL       *)
(* helpers.  Python strings are sequences of one-character strings, and    *)
(* the regular expressions of the helpers are computed character by        *)
(* character.                                                              *)
(***************************************************************************)
EXTENDS Integers, Sequences, FiniteSets, TLC

VARIABLES
    app,            \* which script is deployed: "app" or "app_panel"
    client,         \* TRUE iff OPENAI_API is set (client is not None)
    bq,             \* TRUE iff the service account is set (bq is not None)
    BQ_TABLE,       \* the configured target table identifier
    threads,        \* st.session_state.threads (app.py), newest first
    pending_index,  \* st.session_state.pending_index (app.py)
    insights,       \* st.session_state.insights (app_panel.py), newest first
    pending,        \* st.session_state.pending (app_panel.py)
    schema_cached,  \* st.cache_data holds the result of get_table_schema
    now,            \* time.time() as a logical clock, one tick per submission
    calls,          \* per turn (keyed by ts): the external calls made for it
    fpc,            \* position of a helper-function run: "idle", "in", "done"
    inp,            \* the argument handed to the helper under examination
    out,            \* its result
    out2,           \* the result of applying it to its own result
    safe,           \* result of sql_is_safe
    df_rows,        \* number of rows of the DataFrame handed to the summarizer
    llm_ok,         \* whether the LLM completion service answers or raises
    summ,           \* result of the summarizer
    summ_calls,     \* LLM calls made by the summarizer
    limited,        \* result of ensure_limit
    limited2,       \* the result of applying ensure_limit to its own result
    safe2,          \* result of sql_is_safe on the result of ensure_limit
    p_out,          \* result of sanitize_sql of app_panel.py
    p_safe,         \* result of sql_is_safe of app_panel.py
    p_limited,      \* result of ensure_limit of app_panel.py
    sm_pages,       \* the responses the Supermetrics API gives, in order
    sm_pc,          \* position of SupermetricsAdapter.query
    sm_df,          \* df of query: the rows gathered so far
    sm_next,        \* next_params of query
    sm_reqs         \* the page parameters of the requests issued so far

config == <<app, client, bq, BQ_TABLE>>
session == <<threads, pending_index, insights, pending, schema_cached, now, calls>>
limits == <<limited, limited2, safe2, p_out, p_safe, p_limited>>
adapter == <<sm_pages, sm_pc, sm_df, sm_next, sm_reqs>>
harness == <<fpc, inp, out, out2, safe, df_rows, llm_ok, summ, summ_calls,
             limited, limited2, safe2, p_out, p_safe, p_limited,
             sm_pages, sm_pc, sm_df, sm_next, sm_reqs>>
vars == <<app, client, bq, BQ_TABLE, threads, pending_index, insights, pending,
          schema_cached, now, calls, fpc, inp, out, out2, safe, df_rows,
          llm_ok, summ, summ_calls, limited, limited2, safe2, p_out, p_safe, p_limited,
          sm_pages, sm_pc, sm_df, sm_next, sm_reqs>>

\* Python's None where a text, an answer or a sample is expected: a value no
\* string of characters and no answer equals
None == <<"None">>
\* Python's None where an index is expected
NoneIdx == -1

(***************************************************************************)
(* Characters and Python string primitives.                                *)
(***************************************************************************)
UpperAlpha == <<"A","B","C","D","E","F","G","H","I","J","K","L","M",
                "N","O","P","Q","R","S","T","U","V","W","X","Y","Z">>
LowerAlpha == <<"a","b","c","d","e","f","g","h","i","j","k","l","m",
                "n","o","p","q","r","s","t","u","v","w","x","y","z">>
Digits == {"0","1","2","3","4","5","6","7","8","9"}
Range(f) == {f[i] : i \in DOMAIN f}

\* \s of the re module (ASCII part) and the characters str.strip() removes
Spaces == {" ", "\t", "\n", "\r", "\f"}
IsSpace(c) == c \in Spaces
\* \d of the re module (ASCII part)
IsDigit(c) == c \in Digits
\* \w of the re module (ASCII part); \b is a change of IsWord
IsWord(c) == c \in Range(UpperAlpha) \cup Range(LowerAlpha) \cup Digits \cup {"_"}

\* str.lower() on one character
LowerChar(c) ==
    IF c \in Range(UpperAlpha)
    THEN LowerAlpha[CHOOSE i \in 1..26 : UpperAlpha[i] = c]
    ELSE c
\* str.lower()
Lower(s) == [i \in 1..Len(s) |-> LowerChar(s[i])]

\* number of leading characters of s that satisfy the class cls
LeadRun(s, cls) ==
    CHOOSE n \in 0..Len(s) :
        /\ \A k \in 1..n : s[k] \in cls
        /\ n = Len(s) \/ s[n+1] \notin cls
\* number of trailing characters of s that satisfy the class cls
TrailRun(s, cls) ==
    CHOOSE n \in 0..Len(s) :
        /\ \A k \in (Len(s)-n+1)..Len(s) : s[k] \in cls
        /\ n = Len(s) \/ s[Len(s)-n] \notin cls

\* s[n:] and s[:len(s)-n]
DropFirst(s, n) == SubSeq(s, n+1, Len(s))
DropLast(s, n) == SubSeq(s, 1, Len(s)-n)

LStrip(s) == DropFirst(s, LeadRun(s, Spaces))
RStrip(s) == DropLast(s, TrailRun(s, Spaces))
\* str.strip()
Strip(s) == RStrip(LStrip(s))
\* str.rstrip(";")
RStripSemi(s) == DropLast(s, TrailRun(s, {";"}))

\* s.startswith(p), s.endswith(p), p in s
StartsWith(s, p) == Len(s) >= Len(p) /\ SubSeq(s, 1, Len(p)) = p
EndsWith(s, p) == Len(s) >= Len(p) /\ SubSeq(s, Len(s)-Len(p)+1, Len(s)) = p
Contains(s, p) ==
    \E i \in 1..(Len(s)-Len(p)+1) : SubSeq(s, i, i+Len(p)-1) = p

\* \b at the gap before position i (1-based) of s
WordBoundary(s, i) ==
    LET before == i > 1 /\ i-1 <= Len(s) /\ IsWord(s[i-1])
        after  == i >= 1 /\ i <= Len(s) /\ IsWord(s[i])
    IN before # after

\* literals of the source
kw_sql      == <<"s","q","l">>
kw_select   == <<"s","e","l","e","c","t">>
kw_limit    == <<"l","i","m","i","t">>
\* the backquote character, written by name: the two letters stand for the
\* one character of the source
Backquote == "bq"
fence       == <<Backquote, Backquote, Backquote>>
forbidden   == { <<"i","n","s","e","r","t">>, <<"u","p","d","a","t","e">>,
                 <<"d","e","l","e","t","e">>, <<"m","e","r","g","e">>,
                 <<"d","r","o","p">>, <<"c","r","e","a","t","e">>,
                 <<"a","l","t","e","r">>, <<"t","r","u","n","c","a","t","e">>,
                 <<";">>, <<"-","-">>, <<"/","*">> }
default_limit == <<"1","0","0","0">>

(***************************************************************************)
(* src/app.py: the SQL helpers.                                            *)
(***************************************************************************)
\* re.sub(r"^sql\s*", "", t, flags=re.IGNORECASE)
StripLabel(t) ==
    IF StartsWith(Lower(t), kw_sql) THEN LStrip(DropFirst(t, 3)) ELSE t

\* re.sub of the code-fence pattern (app.py line 129), IGNORECASE | DOTALL:
\* the first alternative can match at position 0 only; the scan goes on after
\* it, where the second alternative matches at most once, at the end.
StripFences(t) ==
    LET a  == IF StartsWith(t, fence) THEN DropFirst(t, 3) ELSE t
        b  == IF StartsWith(t, fence) /\ StartsWith(Lower(a), kw_sql)
              THEN DropFirst(a, 3) ELSE a
        r  == IF StartsWith(t, fence) THEN LStrip(b) ELSE t
    IN IF EndsWith(r, fence) THEN RStrip(DropLast(r, 3)) ELSE r

\* m.start()+1 for m = re.search(r"\bselect\b", t, flags=re.IGNORECASE);
\* 0 when there is no match
SelectMatch(t) ==
    LET hit(i) == /\ Lower(SubSeq(t, i, i+5)) = kw_select
                  /\ WordBoundary(t, i)
                  /\ WordBoundary(t, i+6)
        hits == {i \in 1..(Len(t)-5) : hit(i)}
    IN IF hits = {} THEN 0 ELSE CHOOSE i \in hits : \A j \in hits : i <= j

\* sanitize_sql with the slip of returning nothing when no SELECT is found
sanitize_sql_empty_nomatch(text) ==
    IF text = <<>> THEN <<>>
    ELSE LET t3 == StripFences(StripLabel(Strip(text)))
             m  == SelectMatch(t3)
         IN IF m = 0 THEN <<>> ELSE RStripSemi(Strip(DropFirst(t3, m-1)))

sanitize_sql(text) ==
    IF text = <<>> THEN <<>>
    ELSE LET t1 == Strip(text)
             t2 == StripLabel(t1)
             t3 == StripFences(t2)
             m  == SelectMatch(t3)
             t4 == IF m # 0 THEN DropFirst(t3, m-1) ELSE t3
         IN RStripSemi(Strip(t4))

\* re.sub of the class of backquote and whitespace (app.py lines 139-140)
Clean(x) == SelectSeq(x, LAMBDA c : ~(c = Backquote \/ IsSpace(c)))

\* sql_is_safe with the slip of testing the tokens against the statement as
\* written instead of its lower-case form
sql_is_safe_case_sensitive(sql) ==
    LET s == Strip(sql)
        head == LStrip(Lower(s))
    IN IF ~(StartsWith(head, kw_select) /\ WordBoundary(head, 7)) THEN FALSE
       ELSE IF \E tok \in forbidden : Contains(s, tok) THEN FALSE
       ELSE Contains(Clean(Lower(s)), Clean(Lower(BQ_TABLE)))

\* sql_is_safe with the slip of leaving out the target-table test
sql_is_safe_no_target(sql) ==
    LET s_lower == Lower(Strip(sql))
        head == LStrip(s_lower)
    IN IF ~(StartsWith(head, kw_select) /\ WordBoundary(head, 7)) THEN FALSE
       ELSE ~\E tok \in forbidden : Contains(s_lower, tok)

\* sql_is_safe with the slip of not lower-casing BQ_TABLE
sql_is_safe_target_case(sql) ==
    LET s_lower == Lower(Strip(sql))
        head == LStrip(s_lower)
    IN IF ~(StartsWith(head, kw_select) /\ WordBoundary(head, 7)) THEN FALSE
       ELSE IF \E tok \in forbidden : Contains(s_lower, tok) THEN FALSE
       ELSE Contains(Clean(s_lower), Clean(BQ_TABLE))

sql_is_safe(sql) ==
    LET s == Strip(sql)
        s_lower == Lower(s)
        head == LStrip(s_lower)
        target_clean == Clean(Lower(BQ_TABLE))
        s_clean == Clean(s_lower)
    IN IF ~(StartsWith(head, kw_select) /\ WordBoundary(head, 7)) THEN FALSE
       ELSE IF \E tok \in forbidden : Contains(s_lower, tok) THEN FALSE
       ELSE Contains(s_clean, target_clean)

\* re.search(r"\blimit\b\s+\d+\s*$", sql, re.I) is not None
HasLimit(sql) ==
    LET a == RStrip(sql)
        d == TrailRun(a, Digits)
        b == DropLast(a, d)
        w == TrailRun(b, Spaces)
        c == DropLast(b, w)
    IN /\ d >= 1
       /\ w >= 1
       /\ EndsWith(Lower(c), kw_limit)
       /\ WordBoundary(c, Len(c)-4)

\* ensure_limit appending the ceiling on the same line
ensure_limit_same_line(sql) ==
    IF HasLimit(sql) THEN sql
    ELSE sql \o <<" ">> \o <<"L","I","M","I","T">> \o <<" ">> \o default_limit

\* ensure_limit appending the ceiling with no blank after the keyword
ensure_limit_glued(sql) ==
    IF HasLimit(sql) THEN sql
    ELSE sql \o <<"\n">> \o <<"L","I","M","I","T">> \o default_limit

\* ensure_limit appending the ceiling followed by a remark
ensure_limit_commented(sql) ==
    IF HasLimit(sql) THEN sql
    ELSE sql \o <<"\n">> \o <<"L","I","M","I","T">> \o <<" ">> \o default_limit
             \o <<" ","-","-"," ","c","a","p">>

ensure_limit(sql) ==
    IF HasLimit(sql) THEN sql
    ELSE sql \o <<"\n">> \o <<"L","I","M","I","T">> \o <<" ">> \o default_limit

(***************************************************************************)
(* src/app_panel.py: the SQL helpers.  Their patterns are raw strings with *)
(* doubled backslashes, so each "\\s", "\\b", "\\d" of the source is a     *)
(* literal backslash followed by the letter, and "\\n" in the f-string is  *)
(* a backslash followed by n.                                              *)
(***************************************************************************)
Backslash == "\\"
\* the letters s and d under re.IGNORECASE
IsS == {"s", "S"}
IsD == {"d", "D"}
panel_kw_select == <<Backslash,"b","s","e","l","e","c","t",Backslash,"b">>
panel_kw_limit  == <<Backslash,"b","l","i","m","i","t",Backslash,"b",Backslash>>

\* re.sub(r"^sql\\s*", "", t, flags=re.IGNORECASE)
PanelStripLabel(t) ==
    IF StartsWith(Lower(t), kw_sql \o <<Backslash>>)
    THEN LET r == DropFirst(t, 4) IN DropFirst(r, LeadRun(r, IsS))
    ELSE t

\* re.sub of the code-fence pattern (app_panel.py line 177): the opening
\* fence needs a backslash after it, the closing fence one before it.
PanelStripFences(t) ==
    LET a  == IF StartsWith(t, fence) THEN DropFirst(t, 3) ELSE t
        b  == IF StartsWith(Lower(a), kw_sql) THEN DropFirst(a, 3) ELSE a
        lead == StartsWith(t, fence) /\ StartsWith(b, <<Backslash>>)
        c  == DropFirst(b, 1)
        r  == IF lead THEN DropFirst(c, LeadRun(c, IsS)) ELSE t
        e  == DropLast(r, 3)
        f  == DropLast(e, TrailRun(e, IsS))
    IN IF EndsWith(r, fence) /\ EndsWith(f, <<Backslash>>)
       THEN DropLast(f, 1) ELSE r

\* m.start()+1 for m = re.search(r"\\bselect\\b", t, flags=re.IGNORECASE);
\* 0 when there is no match
PanelSelectMatch(t) ==
    LET hits == {i \in 1..(Len(t)-9) : Lower(SubSeq(t, i, i+9)) = panel_kw_select}
    IN IF hits = {} THEN 0 ELSE CHOOSE i \in hits : \A j \in hits : i <= j

panel_sanitize_sql(text) ==
    IF text = <<>> THEN <<>>
    ELSE LET t1 == Strip(text)
             t2 == PanelStripLabel(t1)
             t3 == PanelStripFences(t2)
             m  == PanelSelectMatch(t3)
             t4 == IF m # 0 THEN DropFirst(t3, m-1) ELSE t3
         IN RStripSemi(Strip(t4))

\* re.sub of the class of backquote, backslash and the letter s
\* (app_panel.py lines 187-188)
PanelClean(x) ==
    SelectSeq(x, LAMBDA c : ~(c = Backquote \/ c = Backslash \/ c = "s"))

panel_sql_is_safe(sql) ==
    LET s == Lower(Strip(sql))
        r == DropFirst(s, 1)
        n == LeadRun(r, IsS)
        head == /\ StartsWith(s, <<Backslash>>)
                /\ n >= 1
                /\ StartsWith(DropFirst(r, n-1), <<"s","e","l","e","c","t",Backslash,"b">>)
        target_clean == PanelClean(Lower(BQ_TABLE))
        s_clean == PanelClean(s)
    IN IF ~head THEN FALSE
       ELSE IF \E tok \in forbidden : Contains(s, tok) THEN FALSE
       ELSE Contains(s_clean, target_clean)

\* the pattern of app_panel.py line 192 matched against the end of a
PanelLimitTail(a) ==
    LET a1 == DropLast(a, TrailRun(a, IsS))
        a2 == DropLast(a1, 1)
        k2 == TrailRun(a2, IsD)
        a3 == DropLast(a2, k2)
        a4 == DropLast(a3, 1)
        k1 == TrailRun(a4, IsS)
        a5 == DropLast(a4, k1)
    IN /\ EndsWith(a1, <<Backslash>>)
       /\ k2 >= 1
       /\ EndsWith(a3, <<Backslash>>)
       /\ k1 >= 1
       /\ EndsWith(Lower(a5), panel_kw_limit)

\* re.search(r"\\blimit\\b\\s+\\d+\\s*$", sql, re.I) is not None; $ matches
\* at the end and before a newline that ends the string
PanelHasLimit(sql) ==
    \/ PanelLimitTail(sql)
    \/ EndsWith(sql, <<"\n">>) /\ PanelLimitTail(DropLast(sql, 1))

panel_ensure_limit(sql) ==
    IF PanelHasLimit(sql) THEN sql
    ELSE sql \o <<Backslash, "n">> \o <<"L","I","M","I","T">> \o <<" ">> \o default_limit

(***************************************************************************)
(* Bounds of the model.                                                    *)
(***************************************************************************)
MaxTurns == 2       \* submissions per session
MaxRows == 1        \* rows of a warehouse result

(***************************************************************************)
(* Texts of the source and of the environment.                             *)
(***************************************************************************)
tbl_pt == <<"p",".","t">>
tbl_qu == <<"q",".","u">>
sel_c_from == <<"s","e","l","e","c","t"," ","c"," ","f","r","o","m"," ">>
SEL_C_FROM == <<"S","E","L","E","C","T"," ","c"," ","F","R","O","M"," ">>

\* completions the LLM may return for the SQL prompt
Completions == {
    sel_c_from \o tbl_pt,
    fence \o <<"s","q","l","\n">> \o SEL_C_FROM \o <<Backquote>> \o tbl_pt
          \o <<Backquote>> \o <<" ","L","I","M","I","T"," ","5",";","\n">> \o fence,
    <<"D","R","O","P"," ","T","A","B","L","E"," ">> \o tbl_pt,
    sel_c_from \o tbl_qu,
    <<Backslash,"s","e","l","e","c","t",Backslash,"b"," ">> \o tbl_pt,
    <<" ">> }

\* what the user may have typed when "Enviar" / "Send" is pressed
QuestionTexts == { <<>>, <<" ">>, <<"q"," ">> }

MSG_UNSAFE   == "Nao foi possivel gerar uma consulta segura para essa pergunta."
MSG_DISABLED == "Defina OPENAI_API para habilitar a sintese de respostas."
MSG_NODATA   == "Sem dados para o recorte solicitado."
MSG_ERROR    == "Erro ao consultar: "
MSG_SUMMARY  == "(LLM summary)"
F_INVALID    == "Consulta invalida: Nao foi possivel gerar uma SQL segura."
F_DISABLED   == "Configuracao necessaria: Defina OPENAI_API."
F_NODATA     == "Sem dados: Nao ha linhas para o recorte solicitado."
F_ERROR      == "Erro ao consultar: "

(***************************************************************************)
(* src/app.py: LLM helpers.  gen_ok / reply_ok say whether the completion  *)
(* service answers or raises; llm counts the calls made to it.             *)
(***************************************************************************)
build_sql_with_ai(gen_ok, completion) ==
    IF ~client THEN [sql |-> <<>>, llm |-> 0, raised |-> FALSE]
    ELSE IF ~gen_ok THEN [sql |-> <<>>, llm |-> 1, raised |-> TRUE]
    ELSE [sql |-> sanitize_sql(Strip(completion)), llm |-> 1, raised |-> FALSE]

\* ai_summary_paragraph with the two early returns in the other order
ai_summary_paragraph_rows_first(rows, reply_ok) ==
    IF rows = 0 THEN [a |-> <<MSG_NODATA>>, llm |-> 0, raised |-> FALSE]
    ELSE IF ~client THEN [a |-> <<MSG_DISABLED>>, llm |-> 0, raised |-> FALSE]
    ELSE IF ~reply_ok THEN [a |-> None, llm |-> 1, raised |-> TRUE]
    ELSE [a |-> <<MSG_SUMMARY>>, llm |-> 1, raised |-> FALSE]

ai_summary_paragraph(rows, reply_ok) ==
    IF ~client THEN [a |-> <<MSG_DISABLED>>, llm |-> 0, raised |-> FALSE]
    ELSE IF rows = 0 THEN [a |-> <<MSG_NODATA>>, llm |-> 0, raised |-> FALSE]
    ELSE IF ~reply_ok THEN [a |-> None, llm |-> 1, raised |-> TRUE]
    ELSE [a |-> <<MSG_SUMMARY>>, llm |-> 1, raised |-> FALSE]

(***************************************************************************)
(* src/app_panel.py: LLM helpers.                                          *)
(***************************************************************************)
panel_build_sql_with_ai(gen_ok, completion) ==
    IF ~client THEN [sql |-> <<>>, llm |-> 0, raised |-> FALSE]
    ELSE IF ~gen_ok THEN [sql |-> <<>>, llm |-> 1, raised |-> TRUE]
    ELSE [sql |-> panel_sanitize_sql(Strip(completion)), llm |-> 1, raised |-> FALSE]

\* with a credential and rows, building the arguments of the completion call
\* raises TypeError (response_format is a set display holding a dict), so the
\* call itself is never made
ai_key_findings(rows, reply_ok) ==
    IF ~client THEN [a |-> <<F_DISABLED>>, llm |-> 0, raised |-> FALSE]
    ELSE IF rows = 0 THEN [a |-> <<F_NODATA>>, llm |-> 0, raised |-> FALSE]
    ELSE [a |-> None, llm |-> 0, raised |-> TRUE]

(***************************************************************************)
(* One run of the pipeline for a pending turn: what the try block computes *)
(* and which external calls it makes.                                      *)
(***************************************************************************)
NoCalls == [schema |-> 0, gen |-> 0, query |-> 0, summ |-> 0,
            generated |-> None, executed |-> None, fault |-> ""]

\* raised: the except branch runs with fault e
Fault(e, c) == [raised |-> TRUE, e |-> e, a |-> None, sql |-> None,
                rows |-> 0, c |-> [c EXCEPT !.fault = e]]
\* the try block ran to its end
Done(a, sql, rows, c) == [raised |-> FALSE, e |-> "", a |-> a, sql |-> sql,
                          rows |-> rows, c |-> c]

\* the try block of app.py with the slip of testing only "not sql"
ChatOutcome_unchecked(schema_ok, gen_ok, completion, query_ok, rows, reply_ok) ==
    LET fetch == bq /\ ~schema_cached
        c0 == [NoCalls EXCEPT !.schema = IF fetch THEN 1 ELSE 0]
        g  == build_sql_with_ai(gen_ok, completion)
        c2 == [c0 EXCEPT !.gen = g.llm, !.generated = g.sql]
        lim == ensure_limit(g.sql)
        c3 == [c2 EXCEPT !.query = 1, !.executed = lim]
        s  == ai_summary_paragraph(rows, reply_ok)
    IN IF fetch /\ ~schema_ok THEN Fault("SchemaFetchError", c0)
       ELSE IF g.raised THEN Fault("GenerationError", [c0 EXCEPT !.gen = g.llm])
       ELSE IF g.sql = <<>> THEN Done(<<MSG_UNSAFE>>, g.sql, 0, c2)
       ELSE IF ~bq THEN Fault("AttributeError", c2)
       ELSE IF ~query_ok THEN Fault("QueryExecutionError", c3)
       ELSE IF s.raised THEN Fault("SummarizationError", [c3 EXCEPT !.summ = s.llm])
       ELSE Done(s.a, lim, rows, [c3 EXCEPT !.summ = s.llm])

\* app.py, body of the try block
ChatOutcome(schema_ok, gen_ok, completion, query_ok, rows, reply_ok) ==
    LET fetch == bq /\ ~schema_cached
        c0 == [NoCalls EXCEPT !.schema = IF fetch THEN 1 ELSE 0]
    IN IF fetch /\ ~schema_ok THEN Fault("SchemaFetchError", c0)
       ELSE
       LET g  == build_sql_with_ai(gen_ok, completion)
           c1 == [c0 EXCEPT !.gen = g.llm]
       IN IF g.raised THEN Fault("GenerationError", c1)
          ELSE
          LET sql == g.sql
              c2  == [c1 EXCEPT !.generated = sql]
          IN IF sql = <<>> \/ ~sql_is_safe(sql)
             THEN Done(<<MSG_UNSAFE>>, sql, 0, c2)
             ELSE
             LET lim == ensure_limit(sql)
                 c3  == [c2 EXCEPT !.query = 1, !.executed = lim]
             IN IF ~bq THEN Fault("AttributeError", c2)
                ELSE IF ~query_ok THEN Fault("QueryExecutionError", c3)
                ELSE
                LET s  == ai_summary_paragraph(rows, reply_ok)
                    c4 == [c3 EXCEPT !.summ = s.llm]
                IN IF s.raised THEN Fault("SummarizationError", c4)
                   ELSE Done(s.a, lim, rows, c4)

\* app_panel.py, body of the try block
PanelOutcome(schema_ok, gen_ok, completion, query_ok, rows, reply_ok) ==
    LET fetch == bq /\ ~schema_cached
        c0 == [NoCalls EXCEPT !.schema = IF fetch THEN 1 ELSE 0]
    IN IF fetch /\ ~schema_ok THEN Fault("SchemaFetchError", c0)
       ELSE
       LET g  == panel_build_sql_with_ai(gen_ok, completion)
           c1 == [c0 EXCEPT !.gen = g.llm]
       IN IF g.raised THEN Fault("GenerationError", c1)
          ELSE
          LET sql == g.sql
              c2  == [c1 EXCEPT !.generated = sql]
          IN IF sql = <<>> \/ ~panel_sql_is_safe(sql)
             THEN Done(<<F_INVALID>>, sql, 0, c2)
             ELSE
             LET lim == panel_ensure_limit(sql)
                 c3  == [c2 EXCEPT !.query = 1, !.executed = lim]
             IN IF ~bq THEN Fault("AttributeError", c2)
                ELSE IF ~query_ok THEN Fault("QueryExecutionError", c3)
                ELSE
                LET s  == ai_key_findings(rows, reply_ok)
                    c4 == [c3 EXCEPT !.summ = s.llm]
                IN IF s.raised THEN Fault("TypeError", c4)
                   ELSE Done(s.a, lim, rows, c4)

\* What the environment answers to one run, in the order the run asks: the
\* metadata fetch, the SQL completion, the warehouse query, the summary
\* completion.  An answer that follows a fault is never asked for and is left
\* at a default.
EnvAnswer(schema_ok, gen_ok, completion, query_ok, rows, reply_ok) ==
    [schema_ok |-> schema_ok, gen_ok |-> gen_ok, completion |-> completion,
     query_ok |-> query_ok, rows |-> rows, reply_ok |-> reply_ok]
EnvAnswers ==
    {EnvAnswer(FALSE, FALSE, <<>>, FALSE, 0, FALSE),
     EnvAnswer(TRUE, FALSE, <<>>, FALSE, 0, FALSE)}
    \cup {EnvAnswer(TRUE, TRUE, c, FALSE, 0, FALSE) : c \in Completions}
    \cup {EnvAnswer(TRUE, TRUE, c, TRUE, r, p) :
              c \in Completions, r \in 0..MaxRows, p \in BOOLEAN}

\* the calls of a run added to the calls already made for the turn
AddCalls(old, c) ==
    [schema |-> old.schema + c.schema, gen |-> old.gen + c.gen,
     query |-> old.query + c.query, summ |-> old.summ + c.summ,
     generated |-> c.generated, executed |-> c.executed, fault |-> c.fault]

(***************************************************************************)
(* The session: one action per kind of script run.                         *)
(***************************************************************************)
\* no run of ensure_limit or of the panel's helpers under examination
IdleLimit ==
    /\ limited = <<>> /\ limited2 = <<>> /\ safe2 = FALSE
    /\ p_out = <<>> /\ p_safe = FALSE /\ p_limited = <<>>
\* no query of the Supermetrics adapter under way
IdleAdapter ==
    /\ sm_pages = <<>> /\ sm_pc = "idle" /\ sm_df = <<>>
    /\ sm_next = "absent" /\ sm_reqs = <<>>

IdleHarness ==
    /\ fpc = "idle" /\ inp = <<>> /\ out = <<>> /\ out2 = <<>> /\ safe = FALSE
    /\ df_rows = 0 /\ llm_ok = TRUE /\ summ = None /\ summ_calls = 0
    /\ IdleLimit /\ IdleAdapter

Init ==
    /\ app \in {"app", "app_panel"}
    /\ client \in BOOLEAN
    /\ bq \in BOOLEAN
    /\ BQ_TABLE = tbl_pt
    /\ threads = <<>>
    /\ pending_index = NoneIdx
    /\ insights = <<>>
    /\ pending = NoneIdx
    /\ schema_cached = FALSE
    /\ now = 0
    /\ calls = <<>>
    /\ IdleHarness

\* the clear handler without the reset of the pending marker
Clear_keeps_pending ==
    /\ app = "app"
    /\ threads' = <<>>
    /\ UNCHANGED <<config, pending_index, insights, pending, schema_cached, now,
                   calls, harness>>

\* app.py: "Limpar" pressed
Clear ==
    /\ app = "app"
    /\ threads' = <<>>
    /\ pending_index' = NoneIdx
    /\ UNCHANGED <<config, insights, pending, schema_cached, now, calls, harness>>

\* the submit handler with threads.append in place of threads.insert(0, ...)
Submit_appends ==
    /\ app = "app"
    /\ now < MaxTurns
    /\ \E question_text \in QuestionTexts :
        /\ question_text # <<>> /\ Strip(question_text) # <<>>
        /\ threads' = threads \o
                      <<[q |-> Strip(question_text), a |-> None, sql |-> None,
                         ts |-> now + 1, df_sample |-> None, df_cols |-> None]>>
    /\ pending_index' = 0
    /\ now' = now + 1
    /\ calls' = Append(calls, NoCalls)
    /\ UNCHANGED <<config, insights, pending, schema_cached, harness>>

\* app.py: "Enviar" pressed with a question that is not blank
Submit ==
    /\ app = "app"
    /\ now < MaxTurns
    /\ \E question_text \in QuestionTexts :
        /\ question_text # <<>> /\ Strip(question_text) # <<>>
        /\ threads' = <<[q |-> Strip(question_text), a |-> None, sql |-> None,
                         ts |-> now + 1, df_sample |-> None, df_cols |-> None]>>
                      \o threads
    /\ pending_index' = 0
    /\ now' = now + 1
    /\ calls' = Append(calls, NoCalls)
    /\ UNCHANGED <<config, insights, pending, schema_cached, harness>>

\* the processing block with the reset of the pending marker at the end of
\* the try block in place of the finally clause
Process_keeps_pending ==
    /\ app = "app"
    /\ pending_index # NoneIdx
    /\ pending_index + 1 \in DOMAIN threads
    /\ \E e \in EnvAnswers :
        \E o \in {ChatOutcome(e.schema_ok, e.gen_ok, e.completion, e.query_ok,
                               e.rows, e.reply_ok)} :
        LET i  == pending_index + 1
            th == threads[i]
        IN /\ threads' =
                IF o.raised
                THEN [threads EXCEPT ![i].a = <<MSG_ERROR, o.e>>, ![i].sql = None]
                ELSE [threads EXCEPT
                        ![i].a = o.a,
                        ![i].sql = o.sql,
                        ![i].df_cols = IF o.rows > 0 THEN <<"c">> ELSE @,
                        ![i].df_sample = IF o.rows > 0
                                         THEN [k \in 1..o.rows |-> "row"] ELSE @]
           /\ calls' = [calls EXCEPT ![th.ts] = AddCalls(@, o.c)]
           /\ schema_cached' = (schema_cached \/ (bq /\ e.schema_ok))
           /\ pending_index' = IF o.raised THEN pending_index ELSE NoneIdx
    /\ UNCHANGED <<config, insights, pending, now, harness>>

\* app.py: a run in which no handler above fires and a turn is pending
Process ==
    /\ app = "app"
    /\ pending_index # NoneIdx
    /\ pending_index + 1 \in DOMAIN threads
    /\ \E e \in EnvAnswers :
        \E o \in {ChatOutcome(e.schema_ok, e.gen_ok, e.completion, e.query_ok,
                               e.rows, e.reply_ok)} :
        LET i  == pending_index + 1
            th == threads[i]
        IN /\ threads' =
                IF o.raised
                THEN [threads EXCEPT ![i].a = <<MSG_ERROR, o.e>>, ![i].sql = None]
                ELSE [threads EXCEPT
                        ![i].a = o.a,
                        ![i].sql = o.sql,
                        ![i].df_cols = IF o.rows > 0 THEN <<"c">> ELSE @,
                        ![i].df_sample = IF o.rows > 0
                                         THEN [k \in 1..o.rows |-> "row"] ELSE @]
           /\ calls' = [calls EXCEPT ![th.ts] = AddCalls(@, o.c)]
           /\ schema_cached' = (schema_cached \/ (bq /\ e.schema_ok))
    /\ pending_index' = NoneIdx
    /\ UNCHANGED <<config, insights, pending, now, harness>>

\* app_panel.py: "Clear" pressed
PanelClear ==
    /\ app = "app_panel"
    /\ insights' = <<>>
    /\ pending' = NoneIdx
    /\ UNCHANGED <<config, threads, pending_index, schema_cached, now, calls, harness>>

\* app_panel.py: "Send" or a quick prompt pressed with a question that is
\* not blank
PanelSubmit ==
    /\ app = "app_panel"
    /\ now < MaxTurns
    /\ \E q \in QuestionTexts :
        /\ q # <<>> /\ Strip(q) # <<>>
        /\ insights' = <<[q |-> Strip(q), findings |-> None, ts |-> now + 1,
                          sql |-> None]>> \o insights
    /\ pending' = 0
    /\ now' = now + 1
    /\ calls' = Append(calls, NoCalls)
    /\ UNCHANGED <<config, threads, pending_index, schema_cached, harness>>

\* app_panel.py: a run in which no handler above fires and an insight is
\* pending
PanelProcess ==
    /\ app = "app_panel"
    /\ pending # NoneIdx
    /\ pending + 1 \in DOMAIN insights
    /\ \E e \in EnvAnswers :
        \E o \in {PanelOutcome(e.schema_ok, e.gen_ok, e.completion, e.query_ok,
                                e.rows, e.reply_ok)} :
        LET idx == pending + 1
            it  == insights[idx]
        IN /\ insights' =
                IF o.raised
                THEN [insights EXCEPT ![idx].findings = <<F_ERROR, o.e>>]
                ELSE [insights EXCEPT ![idx].findings = o.a, ![idx].sql = o.sql]
           /\ calls' = [calls EXCEPT ![it.ts] = AddCalls(@, o.c)]
           /\ schema_cached' = (schema_cached \/ (bq /\ e.schema_ok))
    /\ pending' = NoneIdx
    /\ UNCHANGED <<config, threads, pending_index, now, harness>>

Next == Clear \/ Submit \/ Process \/ PanelClear \/ PanelSubmit \/ PanelProcess

Spec == Init /\ [][Next]_vars

\* a pending turn is processed by the rerun its submission schedules
FairSpec == Spec /\ WF_vars(Process) /\ WF_vars(PanelProcess)

(***************************************************************************)
(* Runs of one helper on one argument.  The arguments are concatenations   *)
(* of a few tokens, so that labels, fences, keywords and terminators meet  *)
(* in every order, and the statements of the pipeline.                     *)
(***************************************************************************)
MaxSanToks == 4     \* tokens of an argument of sanitize_sql
MaxSafeToks == 3    \* tokens of an argument of sql_is_safe
SumMaxRows == 6     \* rows of a DataFrame handed to the summarizer

RECURSIVE Flatten(_)
Flatten(ts) == IF ts = <<>> THEN <<>> ELSE Head(ts) \o Flatten(Tail(ts))
TokenStrings(toks, n) == {Flatten(ts) : ts \in UNION {[1..k -> toks] : k \in 0..n}}

SanTokens == { kw_select, <<"S","e","l","e","c","t">>, <<" ">>, <<"\n">>, <<";">>,
               fence, kw_sql, <<"x">> }
SanInputs == TokenStrings(SanTokens, MaxSanToks) \cup Completions

tbl_pt2  == <<"p",".","t","2">>
tbl_PT   == <<"P",".","T">>
tbl_drop == <<"p",".","d","r","o","p","s">>
Targets  == { <<>>, tbl_pt, tbl_PT, tbl_drop }
RefTables == { tbl_pt, tbl_pt2, tbl_qu, tbl_PT, tbl_drop }
\* SELECT col FROM <table>, the identifier bare or between backquotes
MinimalSelect(tbl, quoted) ==
    <<"S","E","L","E","C","T"," ","c","o","l"," ","F","R","O","M"," ">>
    \o (IF quoted THEN <<Backquote>> \o tbl \o <<Backquote>> ELSE tbl)
SelectStatements == {MinimalSelect(t, b) : t \in RefTables, b \in BOOLEAN}
\* SELECT * FROM p.t; DROP TABLE p.t
chained == <<"S","E","L","E","C","T"," ","*"," ","F","R","O","M"," ">> \o tbl_pt
           \o <<";"," ","D","R","O","P"," ","T","A","B","L","E"," ">> \o tbl_pt

SafeTokens == { <<"S","e","l","e","c","t">>, <<" ">>, tbl_pt,
                <<"I","N","S","E","R","T">>, <<"U","p","d","a","t","e">>,
                <<"d","e","l","e","t","e">>, <<"M","E","R","G","E">>,
                <<"D","r","o","p">>, <<"c","r","e","a","t","e">>,
                <<"A","L","T","E","R">>, <<"T","r","u","n","c","a","t","e">>,
                <<";">>, <<"-","-">>, <<"/","*">> }
SafeTokenInputs == TokenStrings(SafeTokens, MaxSafeToks)

IdleSession ==
    /\ threads = <<>> /\ pending_index = NoneIdx /\ insights = <<>>
    /\ pending = NoneIdx /\ schema_cached = FALSE /\ now = 0 /\ calls = <<>>

\* sanitize_sql applied to an argument, and again to its own result
SanInit ==
    /\ app = "app" /\ client = TRUE /\ bq = TRUE /\ BQ_TABLE = tbl_pt
    /\ IdleSession
    /\ fpc = "in" /\ inp \in SanInputs /\ out = <<>> /\ out2 = <<>>
    /\ safe = FALSE /\ df_rows = 0 /\ llm_ok = TRUE /\ summ = None /\ summ_calls = 0
    /\ IdleLimit /\ IdleAdapter

ApplySanitize ==
    /\ fpc = "in"
    /\ out' = sanitize_sql(inp)
    /\ out2' = sanitize_sql(out')
    /\ fpc' = "done"
    /\ UNCHANGED <<config, session, inp, safe, df_rows, llm_ok, summ, summ_calls,
                   limits, adapter>>

SanNext == ApplySanitize
SanSpec == SanInit /\ [][SanNext]_vars

\* sql_is_safe applied to an argument under a configured target table
SafeInit ==
    /\ app = "app" /\ client = TRUE /\ bq = TRUE
    /\ \/ BQ_TABLE \in {<<>>, tbl_pt} /\ inp \in SafeTokenInputs
       \/ BQ_TABLE \in Targets /\ inp \in SelectStatements \cup Completions \cup {chained}
    /\ IdleSession
    /\ fpc = "in" /\ out = <<>> /\ out2 = <<>>
    /\ safe = FALSE /\ df_rows = 0 /\ llm_ok = TRUE /\ summ = None /\ summ_calls = 0
    /\ IdleLimit /\ IdleAdapter

ApplySafe ==
    /\ fpc = "in"
    /\ safe' = sql_is_safe(inp)
    /\ fpc' = "done"
    /\ UNCHANGED <<config, session, inp, out, out2, df_rows, llm_ok, summ, summ_calls,
                   limits, adapter>>

SafeNext == ApplySafe
SafeSpec == SafeInit /\ [][SafeNext]_vars

\* the summarizer of either script applied to a DataFrame of df_rows rows
SumInit ==
    /\ app \in {"app", "app_panel"} /\ client \in BOOLEAN /\ bq = TRUE
    /\ BQ_TABLE = tbl_pt
    /\ IdleSession
    /\ fpc = "in" /\ inp = <<>> /\ out = <<>> /\ out2 = <<>> /\ safe = FALSE
    /\ df_rows \in 0..SumMaxRows /\ llm_ok \in BOOLEAN
    /\ summ = None /\ summ_calls = 0
    /\ IdleLimit /\ IdleAdapter

ApplySummaryParagraph ==
    /\ fpc = "in" /\ app = "app"
    /\ LET r == ai_summary_paragraph(df_rows, llm_ok)
       IN /\ summ' = IF r.raised THEN <<"raised">> ELSE r.a
          /\ summ_calls' = r.llm
    /\ fpc' = "done"
    /\ UNCHANGED <<config, session, inp, out, out2, safe, df_rows, llm_ok,
                   limits, adapter>>

ApplyKeyFindings ==
    /\ fpc = "in" /\ app = "app_panel"
    /\ LET r == ai_key_findings(df_rows, llm_ok)
       IN /\ summ' = IF r.raised THEN <<"raised">> ELSE r.a
          /\ summ_calls' = r.llm
    /\ fpc' = "done"
    /\ UNCHANGED <<config, session, inp, out, out2, safe, df_rows, llm_ok,
                   limits, adapter>>

SumNext == ApplySummaryParagraph \/ ApplyKeyFindings
SumSpec == SumInit /\ [][SumNext]_vars

\* ensure_limit applied to a statement, and again to its own result, with the
\* policy check of the statement before and after (app.py lines 242-247)
MaxLimToks == 4     \* tokens of an argument of ensure_limit
MaxTailToks == 3    \* tokens after a statement the policy accepts

LimTokens == { <<"x">>, <<" ">>, <<"\n">>, <<"L","I","M","I","T">>, kw_limit,
               <<"5">>, <<"-">>, <<".">> }
TailTokens == { <<" ">>, <<"\n">>, <<"L","i","m","i","t">>, <<"5">>, <<"x">> }
LimInputs ==
    TokenStrings(LimTokens, MaxLimToks)
    \cup {MinimalSelect(tbl_pt, b) \o t :
              b \in BOOLEAN, t \in TokenStrings(TailTokens, MaxTailToks)}
    \cup {sanitize_sql(Strip(c)) : c \in Completions}

LimInit ==
    /\ app = "app" /\ client = TRUE /\ bq = TRUE /\ BQ_TABLE \in {tbl_pt, tbl_PT}
    /\ IdleSession
    /\ fpc = "in" /\ inp \in LimInputs /\ out = <<>> /\ out2 = <<>>
    /\ safe = FALSE /\ df_rows = 0 /\ llm_ok = TRUE /\ summ = None /\ summ_calls = 0
    /\ IdleLimit /\ IdleAdapter

ApplyLimit ==
    /\ fpc = "in"
    /\ safe' = sql_is_safe(inp)
    /\ limited' = ensure_limit(inp)
    /\ limited2' = ensure_limit(limited')
    /\ safe2' = sql_is_safe(limited')
    /\ fpc' = "done"
    /\ UNCHANGED <<config, session, inp, out, out2, df_rows, llm_ok, summ, summ_calls,
                   p_out, p_safe, p_limited, adapter>>

LimNext == ApplyLimit
LimSpec == LimInit /\ [][LimNext]_vars

\* the three helpers of app.py and of app_panel.py applied to one argument
BothInputs ==
    TokenStrings(SanTokens, 2) \cup TokenStrings(LimTokens, 2)
    \cup SelectStatements \cup Completions

BothInit ==
    /\ app \in {"app", "app_panel"} /\ client = TRUE /\ bq = TRUE
    /\ BQ_TABLE \in {tbl_pt, tbl_PT}
    /\ IdleSession
    /\ fpc = "in" /\ inp \in BothInputs /\ out = <<>> /\ out2 = <<>>
    /\ safe = FALSE /\ df_rows = 0 /\ llm_ok = TRUE /\ summ = None /\ summ_calls = 0
    /\ IdleLimit /\ IdleAdapter

ApplyBoth ==
    /\ fpc = "in"
    /\ out' = sanitize_sql(inp)
    /\ p_out' = panel_sanitize_sql(inp)
    /\ safe' = sql_is_safe(inp)
    /\ p_safe' = panel_sql_is_safe(inp)
    /\ limited' = ensure_limit(inp)
    /\ p_limited' = panel_ensure_limit(inp)
    /\ fpc' = "done"
    /\ UNCHANGED <<config, session, inp, out2, df_rows, llm_ok, summ, summ_calls,
                   limited2, safe2, adapter>>

BothNext == ApplyBoth
BothSpec == BothInit /\ [][BothNext]_vars

(***************************************************************************)
(* src/supermetrics_adapter.py: SupermetricsAdapter.query.  A response is  *)
(* its status, its rows and the next_page_params it holds under meta and   *)
(* at the top level: "absent" (no such key, or None), "empty" (an empty    *)
(* dict) or the parameters of the next page.                               *)
(***************************************************************************)
MaxPages == 3       \* responses the API has ready for one query

PageRowCounts == {0, 2}
MetaNext == {"absent", "empty", "m"}
TopNext  == {"absent", "empty", "t"}
\* the rows of page i, n of them
PageRows(i, n) == [k \in 1..n |-> <<i, k>>]
ErrorResponse == [status |-> "error", rows |-> <<>>, meta_next |-> "absent",
                  top_next |-> "absent"]
\* what a response is made of: a fault, or a row count and the two values
ResponseKinds ==
    {<<"error", 0, "absent", "absent">>}
    \cup {<<"ok", n, mn, tn>> : n \in PageRowCounts, mn \in MetaNext, tn \in TopNext}
Response(i, kind) ==
    IF kind[1] = "error" THEN ErrorResponse
    ELSE [status |-> "ok", rows |-> PageRows(i, kind[2]), meta_next |-> kind[3],
          top_next |-> kind[4]]
\* bool(x) of a next_page_params value
Truthy(x) == x \notin {"absent", "empty"}
\* the API stops offering pages: its last response is a fault or names no
\* further page
PageScripts ==
    UNION {{[i \in 1..n |-> Response(i, ks[i])] :
               ks \in {f \in [1..n -> ResponseKinds] :
                          f[n][1] = "error"
                          \/ (~Truthy(f[n][3]) /\ ~Truthy(f[n][4]))}} :
           n \in 1..MaxPages}

\* next_page_params read from the meta key only
NextParams_meta_only(resp) == resp.meta_next

\* resp.get("meta", {}).get("next_page_params") or resp.get("next_page_params")
NextParams(resp) ==
    IF Truthy(resp.meta_next) THEN resp.meta_next ELSE resp.top_next

\* df_next is concatenated unless it is empty
Concat(df, df_next) == IF df_next # <<>> THEN df \o df_next ELSE df

AdapterInit ==
    /\ app = "app" /\ client = TRUE /\ bq = TRUE /\ BQ_TABLE = tbl_pt
    /\ IdleSession
    /\ fpc = "idle" /\ inp = <<>> /\ out = <<>> /\ out2 = <<>> /\ safe = FALSE
    /\ df_rows = 0 /\ llm_ok = TRUE /\ summ = None /\ summ_calls = 0
    /\ IdleLimit
    /\ sm_pages \in PageScripts
    /\ sm_pc = "start" /\ sm_df = <<>> /\ sm_next = "absent" /\ sm_reqs = <<>>

\* query up to the first reading of next_params (lines 159-190)
QueryFirstPage ==
    /\ sm_pc = "start"
    /\ LET resp == sm_pages[1]
       IN /\ sm_reqs' = <<"first">>
          /\ IF resp.status = "error"
             THEN /\ sm_pc' = "raised"
                  /\ UNCHANGED <<sm_df, sm_next>>
             ELSE /\ sm_df' = resp.rows
                  /\ sm_next' = NextParams(resp)
                  /\ sm_pc' = "loop"
    /\ UNCHANGED <<config, session, fpc, inp, out, out2, safe, df_rows, llm_ok,
                   summ, summ_calls, limits, sm_pages>>

\* one round of the while loop (lines 191-200)
QueryNextPage ==
    /\ sm_pc = "loop"
    /\ Truthy(sm_next)
    /\ LET resp_next == sm_pages[Len(sm_reqs) + 1]
       IN /\ sm_reqs' = Append(sm_reqs, sm_next)
          /\ IF resp_next.status = "error"
             THEN /\ sm_pc' = "raised"
                  /\ UNCHANGED <<sm_df, sm_next>>
             ELSE /\ sm_df' = Concat(sm_df, resp_next.rows)
                  /\ sm_next' = NextParams(resp_next)
                  /\ sm_pc' = "loop"
    /\ UNCHANGED <<config, session, fpc, inp, out, out2, safe, df_rows, llm_ok,
                   summ, summ_calls, limits, sm_pages>>

\* the loop test fails and df is returned (lines 191, 202)
QueryReturn ==
    /\ sm_pc = "loop"
    /\ ~Truthy(sm_next)
    /\ sm_pc' = "done"
    /\ UNCHANGED <<config, session, fpc, inp, out, out2, safe, df_rows, llm_ok,
                   summ, summ_calls, limits, sm_pages, sm_df, sm_next, sm_reqs>>

AdapterNext == QueryFirstPage \/ QueryNextPage \/ QueryReturn
AdapterSpec == AdapterInit /\ [][AdapterNext]_vars

(***************************************************************************)
(* Claims.                                                                 *)
(***************************************************************************)
\* the policy check of the deployed script
SafeFor(sql) == IF app = "app" THEN sql_is_safe(sql) ELSE panel_sql_is_safe(sql)
\* the turns of the history of the deployed script, as (answer, sql, ts)
Turns ==
    IF app = "app"
    THEN {[a |-> threads[i].a, sql |-> threads[i].sql, ts |-> threads[i].ts] :
             i \in DOMAIN threads}
    ELSE {[a |-> insights[i].findings, sql |-> insights[i].sql, ts |-> insights[i].ts] :
             i \in DOMAIN insights}
RejectionMessage == IF app = "app" THEN <<MSG_UNSAFE>> ELSE <<F_INVALID>>
IsFaultAnswer(a) == Len(a) = 2
drop_table == <<"D","R","O","P"," ","T","A","B","L","E"," ">> \o tbl_pt

\* C1: bq.query is called only with a statement made from one sql_is_safe
\* accepted; a turn whose generated statement is rejected is resolved with the
\* "could not generate a safe query" message, keeps the rejected statement in
\* its sql field, and has no warehouse query call.
C1_QueryOnlyIfSafe ==
    /\ \A t \in DOMAIN calls :
          (calls[t].query >= 1 \/ calls[t].executed # None)
              => /\ calls[t].generated # None
                 /\ calls[t].generated # <<>>
                 /\ SafeFor(calls[t].generated)
    /\ \A th \in Turns :
          LET c == calls[th.ts]
          IN (th.a # None /\ c.generated # None
                /\ (c.generated = <<>> \/ ~SafeFor(c.generated)))
                => /\ th.a = RejectionMessage
                   /\ th.sql = c.generated
                   /\ c.query = 0

C1_Witness ==
    \E th \in Turns :
        /\ th.sql = drop_table
        /\ th.a = RejectionMessage
        /\ calls[th.ts].gen = 1
        /\ calls[th.ts].query = 0

\* C2: at most one entry of st.session_state.threads has a null answer.
C2_AtMostOnePending ==
    Cardinality({i \in DOMAIN threads : threads[i].a = None}) <= 1

\* C3: every submitted turn eventually leaves the pending state (its answer
\* becomes non-null, or the history is cleared); no turn stays pending forever.
TurnPending(t) == \E i \in DOMAIN threads : threads[i].ts = t /\ threads[i].a = None
C3_EveryTurnResolves ==
    \A t \in 1..MaxTurns : (TurnPending(t) ~> ~TurnPending(t))

\* C4: with no LLM credential a turn that is resolved without a fault carries
\* the "feature disabled" message, which is not the rejection message, stores
\* no statement and has no warehouse query call.
C4_DisabledMessage ==
    \A i \in DOMAIN threads :
        (~client /\ threads[i].a # None /\ ~IsFaultAnswer(threads[i].a))
            => /\ threads[i].a = <<MSG_DISABLED>>
               /\ threads[i].a # <<MSG_UNSAFE>>
               /\ threads[i].sql \in {None, <<>>}
               /\ calls[threads[i].ts].query = 0

\* C5: with a credential and a result of zero rows the summarizer returns the
\* fixed "no data" message and makes no LLM call; without a credential it
\* returns the "feature disabled" message, also for a result of zero rows.
C5_EmptyResultNoLlm ==
    fpc = "done" =>
        /\ (client /\ df_rows = 0)
              => /\ summ = IF app = "app" THEN <<MSG_NODATA>> ELSE <<F_NODATA>>
                 /\ summ_calls = 0
        /\ ~client
              => /\ summ = IF app = "app" THEN <<MSG_DISABLED>> ELSE <<F_DISABLED>>
                 /\ summ_calls = 0

C5_Witness ==
    /\ fpc = "done" /\ app = "app" /\ client /\ df_rows = 0
    /\ summ = <<MSG_NODATA>> /\ summ_calls = 0

\* C6: sanitize_sql(sanitize_sql(x)) = sanitize_sql(x) for every x.
C6_SanitizeIdempotent == fpc = "done" => out2 = out

\* a SELECT keyword (any letter case, between word boundaries) at position i
KeywordAt(s, i) ==
    /\ i >= 1 /\ i + 5 <= Len(s)
    /\ Lower(SubSeq(s, i, i+5)) = kw_select
    /\ WordBoundary(s, i) /\ WordBoundary(s, i+6)
HasKeyword(s) == \E i \in 1..Len(s) : KeywordAt(s, i)
\* only whitespace, terminators, backquotes and the letters of the sql label
OnlyMarkup(s) ==
    \A i \in 1..Len(s) :
        IsSpace(s[i]) \/ s[i] \in {";", Backquote} \/ LowerChar(s[i]) \in {"s","q","l"}

\* C7 as stated: an input with no SELECT keyword yields the empty string.
C7_EmptyWithoutSelect ==
    (fpc = "done" /\ ~HasKeyword(inp)) => out = <<>>

\* C7 as amended: when the input holds a SELECT keyword the result starts at
\* a SELECT keyword and is a piece of the input; when the input does not hold
\* the letters "select" at all, the result is still a piece of the input and
\* is empty only if the input is nothing but label, fences, whitespace and
\* terminators (DROP TABLE p.t comes back unchanged).
C7_CutsAtSelect ==
    fpc = "done" =>
        /\ HasKeyword(inp) => KeywordAt(out, 1) /\ Contains(inp, out)
        /\ ~Contains(Lower(inp), kw_select)
              => /\ Contains(inp, out)
                 /\ out = <<>> => OnlyMarkup(inp)
        /\ inp = drop_table => out = drop_table

C7_Witness ==
    /\ fpc = "done" /\ inp = drop_table /\ out = drop_table

\* the statement begins, after leading whitespace, with the keyword SELECT
BeginsWithSelect(s) == KeywordAt(LStrip(s), 1)

\* C8: a statement that holds a forbidden token in any letter case, or that
\* does not begin with the keyword SELECT, is rejected.
C8_ForbiddenRejected ==
    (/\ fpc = "done"
     /\ \/ \E tok \in forbidden : Contains(Lower(inp), tok)
        \/ ~BeginsWithSelect(inp))
        => safe = FALSE

C8_Witness ==
    /\ fpc = "done" /\ safe = FALSE /\ BQ_TABLE = tbl_pt /\ inp = chained

\* C9 as stated: SELECT col FROM <table> for a table other than the target
\* is rejected, also when the table's identifier extends the target's or the
\* target is empty.
C9_OtherTableRejected ==
    \A t \in RefTables, b \in BOOLEAN :
        (fpc = "done" /\ inp = MinimalSelect(t, b) /\ Lower(t) # Lower(BQ_TABLE))
            => safe = FALSE

\* C9 as amended: a statement is rejected when the target identifier, with
\* backquotes and whitespace removed and in lower case, does not occur in the
\* statement treated the same way; so SELECT col FROM q.u is rejected under
\* the target p.t.
C9_AbsentTargetRejected ==
    fpc = "done" =>
        /\ ~Contains(Clean(Lower(inp)), Clean(Lower(BQ_TABLE))) => safe = FALSE
        /\ \A b \in BOOLEAN :
              (inp = MinimalSelect(tbl_qu, b) /\ BQ_TABLE = tbl_pt) => safe = FALSE

C9_Witness ==
    /\ fpc = "done" /\ inp = MinimalSelect(tbl_qu, TRUE) /\ BQ_TABLE = tbl_pt
    /\ safe = FALSE

\* C10 as stated: SELECT col FROM <target> is accepted for every target,
\* with or without backquotes.
C10_TargetAccepted ==
    \A b \in BOOLEAN :
        (fpc = "done" /\ inp = MinimalSelect(BQ_TABLE, b)) => safe = TRUE

\* C10 as amended: it is accepted for every target that holds no forbidden
\* token (in any letter case).
C10_CleanTargetAccepted ==
    \A b \in BOOLEAN :
        (fpc = "done" /\ inp = MinimalSelect(BQ_TABLE, b)
            /\ ~\E tok \in forbidden : Contains(Lower(BQ_TABLE), tok))
            => safe = TRUE

C10_Witness ==
    /\ fpc = "done" /\ BQ_TABLE = tbl_PT /\ inp = MinimalSelect(tbl_PT, TRUE)
    /\ safe = TRUE

\* the text ends, trailing whitespace aside, with the keyword LIMIT, whitespace
\* and an integer
EndsWithLimit(s) ==
    \E i \in 1..(Len(s)-6) :
        /\ Lower(SubSeq(s, i, i+4)) = kw_limit
        /\ i = 1 \/ ~IsWord(s[i-1])
        /\ IsSpace(s[i+5])
        /\ \E j \in (i+5)..Len(s) : \E k \in (j+1)..Len(s) :
              /\ \A n \in (i+5)..j : IsSpace(s[n])
              /\ \A n \in (j+1)..k : IsDigit(s[n])
              /\ \A n \in (k+1)..Len(s) : IsSpace(s[n])
limit_line == <<"\n","L","I","M","I","T"," ","1","0","0","0">>

\* C11: ensure_limit returns a statement that ends with LIMIT and an integer
\* unchanged, returns any other statement with the line LIMIT 1000 appended,
\* and so the statement handed to the warehouse ends with LIMIT and an integer.
C11_LimitEnforced ==
    fpc = "done" =>
        /\ EndsWithLimit(inp) => limited = inp
        /\ ~EndsWithLimit(inp) => limited = inp \o limit_line
        /\ EndsWithLimit(limited)

C11_Witness ==
    /\ fpc = "done" /\ inp = MinimalSelect(tbl_pt, FALSE)
    /\ limited = inp \o limit_line

\* C12: ensure_limit(ensure_limit(s)) = ensure_limit(s) for every s, also when
\* the first application appended the ceiling.
C12_LimitIdempotent == fpc = "done" => limited2 = limited

C12_Witness ==
    /\ fpc = "done" /\ limited # inp /\ limited2 = limited

\* C18: a statement sql_is_safe accepts is still accepted after ensure_limit.
C18_LimitKeepsSafe == (fpc = "done" /\ safe) => safe2

C18_Witness ==
    /\ fpc = "done" /\ safe /\ safe2 /\ limited # inp
    /\ inp = MinimalSelect(tbl_pt, TRUE)

\* the answer recorded for a fault e by the deployed script
FaultAnswer(e) == IF app = "app" THEN <<MSG_ERROR, e>> ELSE <<F_ERROR, e>>
\* the ts of the turn the pending marker of the deployed script points to
PendingTs ==
    IF app = "app"
    THEN IF pending_index # NoneIdx /\ pending_index + 1 \in DOMAIN threads
         THEN {threads[pending_index + 1].ts} ELSE {}
    ELSE IF pending # NoneIdx /\ pending + 1 \in DOMAIN insights
         THEN {insights[pending + 1].ts} ELSE {}

\* C13: for each submitted question at most one SQL-generation call, one
\* warehouse query and one summarization call are made; a fault is recorded
\* as the turn's answer, the pending marker no longer points to the turn, and
\* no step makes a further call for it.
C13_NoRetry ==
    /\ [](/\ \A t \in DOMAIN calls :
                /\ calls[t].gen <= 1 /\ calls[t].query <= 1 /\ calls[t].summ <= 1
          /\ \A th \in Turns :
                calls[th.ts].fault # ""
                    => /\ th.a = FaultAnswer(calls[th.ts].fault)
                       /\ th.ts \notin PendingTs)
    /\ [][\A t \in DOMAIN calls : calls[t].fault # "" => calls'[t] = calls[t]]_vars

C13_Witness ==
    \E th \in Turns :
        /\ calls[th.ts].fault = "QueryExecutionError"
        /\ th.a = FaultAnswer("QueryExecutionError")
        /\ calls[th.ts].gen = 1 /\ calls[th.ts].query = 1 /\ calls[th.ts].summ = 0
        /\ PendingTs = {}

\* C14: a resolved turn is never changed by a later step; a pipeline run
\* writes only to the pending turn, and only a clear removes resolved turns.
C14_ResolvedFrozen ==
    [][/\ \A i \in DOMAIN threads :
            threads[i].a # None
                => \/ \E j \in DOMAIN threads' : threads'[j] = threads[i]
                   \/ Clear
       /\ \A i \in DOMAIN insights :
            insights[i].findings # None
                => \/ \E j \in DOMAIN insights' : insights'[j] = insights[i]
                   \/ PanelClear
       /\ Process =>
            \A i \in DOMAIN threads :
                i # pending_index + 1 => threads'[i] = threads[i]]_vars

C14_Witness ==
    /\ Len(threads) = 2
    /\ threads[1].a = <<MSG_SUMMARY>> /\ threads[1].df_sample # None
    /\ threads[2].a = <<MSG_UNSAFE>> /\ threads[2].sql = drop_table

\* C15: when the schema cannot be obtained (the metadata fetch raises, or
\* there is no warehouse client) the turn ends with the schema fault as its
\* answer and neither the SQL-generation call nor a warehouse query is made.
C15_SchemaFaultStopsTurn ==
    \A th \in Turns :
        (th.a # None /\ (~bq \/ calls[th.ts].fault = "SchemaFetchError"))
            => /\ th.a = FaultAnswer("SchemaFetchError")
               /\ calls[th.ts].gen = 0
               /\ calls[th.ts].query = 0

\* C17: a pending marker that is not None equals 0, the history is not empty,
\* and the turn at the marker is the latest submitted one and has no answer.
C17_PendingIsNewest ==
    /\ pending_index # NoneIdx
          => /\ pending_index = 0
             /\ threads # <<>>
             /\ threads[1].ts = now
             /\ threads[1].a = None
    /\ pending # NoneIdx
          => /\ pending = 0
             /\ insights # <<>>
             /\ insights[1].ts = now
             /\ insights[1].findings = None

C17_Witness ==
    /\ pending_index = 0 /\ Len(threads) = 2
    /\ threads[1].a = None /\ threads[2].a # None

\* the response holds next_page_params that are not empty, under meta or at
\* the top level
Carries(resp) ==
    \/ resp.meta_next \notin {"absent", "empty"}
    \/ resp.top_next \notin {"absent", "empty"}
\* the first response that does not
LastPage == CHOOSE k \in DOMAIN sm_pages :
                /\ ~Carries(sm_pages[k])
                /\ \A i \in 1..(k-1) : Carries(sm_pages[i])

\* C16: query requests the first page, then one page per response that
\* carries next_page_params, stops at the first response that carries none,
\* and returns the rows of the pages requested, in page order.
C16_Pagination ==
    /\ sm_pc = "done" =>
          /\ Len(sm_reqs) = LastPage
          /\ sm_reqs[1] = "first"
          /\ \A i \in 2..LastPage :
                sm_reqs[i] = IF sm_pages[i-1].meta_next \notin {"absent", "empty"}
                             THEN sm_pages[i-1].meta_next ELSE sm_pages[i-1].top_next
          /\ sm_df = Flatten([i \in 1..LastPage |-> sm_pages[i].rows])
    /\ sm_pc = "loop" =>
          /\ \A i \in 1..(Len(sm_reqs)-1) : Carries(sm_pages[i])
          /\ sm_df = Flatten([i \in 1..Len(sm_reqs) |-> sm_pages[i].rows])

C16_Witness ==
    /\ sm_pc = "done" /\ Len(sm_pages) = 3 /\ Len(sm_reqs) = 2
    /\ sm_reqs = <<"first", "t">>
    /\ sm_df = <<<<1, 1>>, <<1, 2>>, <<2, 1>>, <<2, 2>>>>

\* C19: sanitize_sql, sql_is_safe and ensure_limit of app_panel.py return what
\* the functions of the same name in app.py return, for every argument.
C19_PanelSameAsChat ==
    fpc = "done" => /\ p_out = out
                    /\ p_safe = safe
                    /\ p_limited = limited

====
